---- MODULE Spec2Model ----
(***************************************************************************)
(* Model of the Braille autocorrect core of src/braille.py:                *)
(* BrailleAutocorrect with its per-language tries (dictionaries), its      *)
(* correction counters (corrections), the key parser, the weighted edit    *)
(* distance and suggest_word.                                              *)
(*                                                                         *)
(* Representation.  A Python str is a sequence of one-character strings,   *)
(* a dot pattern is the sequence of its dots (the code's sorted list or    *)
(* tuple), a trie is a function from paths (sequences of dot patterns,     *)
(* the root being the empty path) to nodes, a defaultdict is a function    *)
(* whose domain is the set of keys present.  Distances and scores are      *)
(* exact rationals held as integers in units of 1/Scale.                   *)
(***************************************************************************)
EXTENDS Integers, Sequences, FiniteSets, TLC

VARIABLES
    dictionaries,  \* self.dictionaries: language -> trie
    corrections,   \* self.corrections: lowercased word -> count
    call,          \* the last call made on the object and its arguments
    out,           \* what that call returned or raised
    suggestions,   \* suggest_word's list of triples after its sort
    inserted,      \* history: the words passed to add_word, per language
    lev            \* an evaluation of levenshtein_distance

vars == <<dictionaries, corrections, call, out, suggestions, inserted, lev>>

(***************************************************************************)
(* Bounds of the model.                                                    *)
(***************************************************************************)
MaxCount == 6
MaxLearn == 1
MaxK == 2
MaxTerminals == 2
MaxInputLen == 3
MaxSeqLen == 2

(***************************************************************************)
(* Generic helpers.                                                        *)
(***************************************************************************)
Range(s) == {s[i] : i \in 1..Len(s)}

Min2(a, b) == IF a <= b THEN a ELSE b

Abs(x) == IF x < 0 THEN -x ELSE x

SeqsUpTo(S, n) == UNION {[1..m -> S] : m \in 0..n}

(***************************************************************************)
(* Program constants: src/braille.py lines 10-26, 38-42.                   *)
(***************************************************************************)
Scale == 60

DOT_TO_KEY == <<"D", "W", "Q", "K", "O", "P">>

ENGLISH_BRAILLE ==
    [a |-> <<1>>, b |-> <<1, 2>>, c |-> <<1, 4>>, d |-> <<1, 4, 5>>, e |-> <<1, 5>>,
     f |-> <<1, 2, 4>>, g |-> <<1, 2, 4, 5>>, h |-> <<1, 2, 5>>, i |-> <<2, 4>>,
     j |-> <<2, 4, 5>>, k |-> <<1, 3>>, l |-> <<1, 2, 3>>, m |-> <<1, 3, 4>>,
     n |-> <<1, 3, 4, 5>>, o |-> <<1, 3, 5>>, p |-> <<1, 2, 3, 4>>,
     q |-> <<1, 2, 3, 4, 5>>, r |-> <<1, 2, 3, 5>>, s |-> <<2, 3, 4>>,
     t |-> <<2, 3, 4, 5>>, u |-> <<1, 3, 6>>, v |-> <<1, 2, 3, 6>>,
     w |-> <<2, 4, 5, 6>>, x |-> <<1, 3, 4, 6>>, y |-> <<1, 3, 4, 5, 6>>,
     z |-> <<1, 3, 5, 6>>]

FRENCH_BRAILLE == ENGLISH_BRAILLE

braille_maps == [english |-> ENGLISH_BRAILLE, french |-> FRENCH_BRAILLE]

TheWord == <<"t", "h", "e">>

CONTRACTIONS == << [word |-> TheWord, dots |-> <<2, 3, 4, 6>>] >>

(***************************************************************************)
(* str.lower() and the code-point order of str comparison, on the          *)
(* characters the model uses.                                              *)
(***************************************************************************)
LowerChar(c) == IF c = "A" THEN "a" ELSE IF c = "B" THEN "b" ELSE c

Lower(w) == [i \in 1..Len(w) |-> LowerChar(w[i])]

Ord(c) ==
    CASE c = "-" -> 45
      [] c = "A" -> 65
      [] c = "B" -> 66
      [] c = "a" -> 97
      [] c = "b" -> 98
      [] c = "c" -> 99
      [] c = "e" -> 101
      [] c = "h" -> 104
      [] c = "t" -> 116

RECURSIVE StrLess(_, _)
StrLess(u, v) ==
    IF v = <<>> THEN FALSE
    ELSE IF u = <<>> THEN TRUE
    ELSE IF Ord(u[1]) # Ord(v[1]) THEN Ord(u[1]) < Ord(v[1])
    ELSE StrLess(Tail(u), Tail(v))

(***************************************************************************)
(* KeyMapping: keys_to_dots and input_to_braille.                          *)
(***************************************************************************)
\* Mutant: only the blank separates tokens.
IsSpaceBlankOnly(c) == c = " "

IsSpace(c) == c \in {" ", "\t"}

\* str.split(): the maximal runs of non-whitespace characters, in order.
RECURSIVE SplitWs(_, _)
SplitWs(s, cur) ==
    IF s = <<>> THEN (IF cur = <<>> THEN <<>> ELSE <<cur>>)
    ELSE IF IsSpace(s[1])
         THEN (IF cur = <<>> THEN <<>> ELSE <<cur>>) \o SplitWs(Tail(s), <<>>)
         ELSE SplitWs(Tail(s), Append(cur, s[1]))

\* str.split('+'): every piece between separators, empty pieces included.
RECURSIVE SplitPlus(_, _)
SplitPlus(s, cur) ==
    IF s = <<>> THEN <<cur>>
    ELSE IF s[1] = "+" THEN <<cur>> \o SplitPlus(Tail(s), <<>>)
    ELSE SplitPlus(Tail(s), Append(cur, s[1]))

\* Mutant: the last three keys are missing from the valid set.
valid_keys_short == {<<DOT_TO_KEY[d]>> : d \in 1..3}

valid_keys == {<<DOT_TO_KEY[d]>> : d \in 1..Len(DOT_TO_KEY)}

key_set(keys) == Range(SplitPlus(keys, <<>>))

KeysValid(keys) == keys = <<>> \/ key_set(keys) \subseteq valid_keys

Offending(keys) == key_set(keys) \ valid_keys

\* The ascending list of the dots whose key is in the set.
RECURSIVE DotsFrom(_, _)
DotsFrom(d, ks) ==
    IF d > Len(DOT_TO_KEY) THEN <<>>
    ELSE (IF <<DOT_TO_KEY[d]>> \in ks THEN <<d>> ELSE <<>>) \o DotsFrom(d + 1, ks)

keys_to_dots(keys) == IF keys = <<>> THEN <<>> ELSE DotsFrom(1, key_set(keys))

Tokens(input_seq) == SplitWs(input_seq, <<>>)

\* Mutant: the last bad token is reported instead of the first.
FirstBadLast(toks) ==
    IF \E i \in 1..Len(toks) : ~KeysValid(toks[i])
    THEN CHOOSE i \in 1..Len(toks) :
             /\ ~KeysValid(toks[i])
             /\ \A j \in (i + 1)..Len(toks) : KeysValid(toks[j])
    ELSE 0

\* The index of the first token keys_to_dots raises on, 0 when there is none.
FirstBad(toks) ==
    IF \E i \in 1..Len(toks) : ~KeysValid(toks[i])
    THEN CHOOSE i \in 1..Len(toks) :
             /\ ~KeysValid(toks[i])
             /\ \A j \in 1..(i - 1) : KeysValid(toks[j])
    ELSE 0

input_to_braille(input_seq) ==
    LET toks == Tokens(input_seq)
        bad == FirstBad(toks)
    IN IF bad # 0
       THEN [kind |-> "ValueError", offending |-> Offending(toks[bad])]
       ELSE [kind |-> "ok", dots |-> [i \in 1..Len(toks) |-> keys_to_dots(toks[i])]]

(***************************************************************************)
(* EditDistanceScorer: normalized_dot_distance and levenshtein_distance.   *)
(***************************************************************************)
\* Mutant: the substitution cost of src/test2.py, the differing dots over 6.
normalized_dot_distance_hamming(dots1, dots2) ==
    LET set1 == Range(dots1)
        set2 == Range(dots2)
    IN (Scale * Cardinality((set1 \ set2) \cup (set2 \ set1))) \div 6

normalized_dot_distance(dots1, dots2) ==
    LET set1 == Range(dots1)
        set2 == Range(dots2)
        intersection == Cardinality(set1 \cap set2)
        union == Cardinality(set1 \cup set2)
    IN IF union = 0 THEN Scale
       ELSE Scale - ((Scale * intersection) \div union)

\* One pass of the inner loop (lines 100-105): current_row grown cell by cell.
RECURSIVE RowFill(_, _, _, _, _)
RowFill(current_row, j, c1, word_dots, previous_row) ==
    IF j > Len(word_dots) THEN current_row
    ELSE LET insertions == previous_row[j + 1] + Scale
             deletions == current_row[j] + Scale
             substitution_cost == normalized_dot_distance(c1, word_dots[j])
             substitutions == previous_row[j] + substitution_cost
         IN RowFill(Append(current_row, Min2(Min2(insertions, deletions), substitutions)),
                    j + 1, c1, word_dots, previous_row)

\* The outer loop (lines 98-106): the rows, the last one returned.
RECURSIVE Rows(_, _, _, _)
Rows(i, input_dots, word_dots, previous_row) ==
    IF i > Len(input_dots) THEN previous_row
    ELSE Rows(i + 1, input_dots, word_dots,
              RowFill(<<i * Scale>>, 1, input_dots[i], word_dots, previous_row))

len_diff_penalty(input_dots, word_dots) ==
    Abs(Len(input_dots) - Len(word_dots)) * (Scale \div 2)

\* The body after the swap of line 93: a is the longer sequence.
LevSwapped(a, b, penalty) ==
    IF b = <<>> THEN Len(a) * Scale + penalty
    ELSE LET first_row == [j \in 1..(Len(b) + 1) |-> (j - 1) * Scale]
             last_row == Rows(1, a, b, first_row)
         IN last_row[Len(last_row)] + penalty

levenshtein_distance(input_dots, word_dots) ==
    LET penalty == len_diff_penalty(input_dots, word_dots)
    IN IF Len(input_dots) < Len(word_dots)
       THEN LevSwapped(word_dots, input_dots, penalty)
       ELSE LevSwapped(input_dots, word_dots, penalty)

(***************************************************************************)
(* DotPatternTrie: TrieNode, add_word, load_dictionary.                    *)
(* A node's word is <<>> for None and <<w>> for the str w.                 *)
(***************************************************************************)
TrieNode == [is_end |-> FALSE, word |-> <<>>]

EmptyTrie == (<<>> :> TrieNode)

\* defaultdict(TrieNode): reading a missing key inserts a fresh root.
Touch(dicts, language) ==
    IF language \in DOMAIN dicts THEN dicts ELSE dicts @@ (language :> EmptyTrie)

DotsOfChar(language, char) ==
    IF char \in DOMAIN braille_maps[language]
    THEN braille_maps[language][char]
    ELSE <<>>

WordPath(word, language) ==
    LET w == Lower(word) IN [i \in 1..Len(w) |-> DotsOfChar(language, w[i])]

Prefixes(path) == {SubSeq(path, 1, n) : n \in 0..Len(path)}

\* Mutant: a node that is already terminal keeps the word it has.
InsertAtKeepFirst(trie, path, word) ==
    IF path \in DOMAIN trie /\ trie[path].is_end THEN trie
    ELSE LET fresh == Prefixes(path) \ DOMAIN trie
             grown == trie @@ [p \in fresh |-> TrieNode]
         IN [grown EXCEPT ![path] = [is_end |-> TRUE, word |-> <<word>>]]

\* The walk of lines 46-50 creates the missing nodes of the path; lines 51-52
\* mark its last node.
InsertAt(trie, path, word) ==
    LET fresh == Prefixes(path) \ DOMAIN trie
        grown == trie @@ [p \in fresh |-> TrieNode]
    IN [grown EXCEPT ![path] = [is_end |-> TRUE, word |-> <<word>>]]

\* Mutant: the node stores the case-folded word.
add_word_lowered(dicts, word, language) ==
    LET d == Touch(dicts, language)
    IN [d EXCEPT ![language] =
           InsertAt(d[language], WordPath(word, language), Lower(word))]

add_word(dicts, word, language) ==
    LET d == Touch(dicts, language)
    IN [d EXCEPT ![language] = InsertAt(d[language], WordPath(word, language), word)]

RECURSIVE AddAll(_, _, _)
AddAll(dicts, words, language) ==
    IF words = <<>> THEN dicts
    ELSE AddAll(add_word(dicts, Head(words), language), Tail(words), language)

RECURSIVE AddContractions(_, _, _)
AddContractions(dicts, cs, language) ==
    IF cs = <<>> THEN dicts
    ELSE LET d == Touch(dicts, language)
             c == Head(cs)
         IN AddContractions(
                [d EXCEPT ![language] = InsertAt(d[language], <<c.dots>>, c.word)],
                Tail(cs), language)

\* Mutant: the contractions are added whatever the language.
load_dictionary_all(dicts, words, language) ==
    AddContractions(AddAll(dicts, words, language), CONTRACTIONS, language)

load_dictionary(dicts, words, language) ==
    LET added == AddAll(dicts, words, language)
    IN IF language = "english"
       THEN AddContractions(added, CONTRACTIONS, language)
       ELSE added

(***************************************************************************)
(* LearningStore: defaultdict(int) and learn_correction.                   *)
(***************************************************************************)
Count(corr, key) == IF key \in DOMAIN corr THEN corr[key] ELSE 0

learn_correction(corr, corrected_word) ==
    LET key == Lower(corrected_word)
    IN IF key \in DOMAIN corr
       THEN [corr EXCEPT ![key] = @ + 1]
       ELSE corr @@ (key :> 1)

(***************************************************************************)
(* SuggestionRanker: suggest_word.                                         *)
(***************************************************************************)
\* The nodes dfs scores (line 115): terminal, with a non-empty word.
Scored(trie) == {p \in DOMAIN trie : trie[p].is_end /\ trie[p].word # <<>>
                                      /\ trie[p].word[1] # <<>>}

\* Mutant: the bonus is not capped.
learn_bonus_uncapped(corr, word) == (Scale \div 10) * Count(corr, Lower(word))

learn_bonus(corr, word) == Min2(Scale \div 2, (Scale \div 10) * Count(corr, Lower(word)))

Triple(trie, corr, input_dots, p) ==
    LET word == trie[p].word[1]
        dist == levenshtein_distance(input_dots, p)
    IN [score |-> dist - learn_bonus(corr, word), dist |-> dist, word |-> word]

\* Mutant: the distance is left out of the comparison.
TripleLessNoDist(a, b) ==
    \/ a.score < b.score
    \/ a.score = b.score /\ StrLess(a.word, b.word)

\* Tuple comparison of (score, dist, word).
TripleLess(a, b) ==
    \/ a.score < b.score
    \/ a.score = b.score /\ a.dist < b.dist
    \/ a.score = b.score /\ a.dist = b.dist /\ StrLess(a.word, b.word)

RECURSIVE InsertSorted(_, _)
InsertSorted(t, sorted) ==
    IF sorted = <<>> THEN <<t>>
    ELSE IF TripleLess(t, Head(sorted)) THEN <<t>> \o sorted
    ELSE <<Head(sorted)>> \o InsertSorted(t, Tail(sorted))

\* The triples pushed by dfs, then suggestions.sort() (line 123).  The order
\* of the pushes follows the children's insertion order; the sort makes the
\* list independent of it, triples that compare equal being equal.
RECURSIVE SortedTriples(_, _, _, _)
SortedTriples(trie, corr, input_dots, paths) ==
    IF paths = {} THEN <<>>
    ELSE LET p == CHOOSE q \in paths : TRUE
         IN InsertSorted(Triple(trie, corr, input_dots, p),
                         SortedTriples(trie, corr, input_dots, paths \ {p}))

\* suggestions[:max_suggestions]
Take(s, n) == SubSeq(s, 1, Min2(n, Len(s)))

\* Reading corrections[key] for every scored word inserts the missing keys.
ReadCounts(corr, trie) ==
    LET keys == {Lower(trie[p].word[1]) : p \in Scored(trie)}
    IN corr @@ [key \in keys \ DOMAIN corr |-> 0]

(***************************************************************************)
(* The state machine: one BrailleAutocorrect object and its caller.        *)
(***************************************************************************)
Languages == {"english", "french"}

\* The words, word lists, corrected words and inputs the caller draws from.
Words == {<<>>, <<"a">>, <<"A">>, <<"B">>, <<"a", "-">>}

WordLists == {<<>>, << <<"a">> >>, << <<"A">>, <<"a">> >>}

RankLists == { << <<"a">>, <<"B">>, <<"c">> >>, << <<"a">>, <<"a", "-">>, <<>> >> }

SampleList == << <<"a">>, <<"B">> >>

LearnWords == {<<"A">>, <<"B">>, TheWord}

Queries ==
    { <<>>, <<" ", "\t">>, <<"D">>, <<"D", " ">>, <<"D", "+", "W">>,
      <<"W", "+", "Q", "+", "K", "+", "P">>, <<"D", "+", "A">> }

InputChars == {"D", "K", "+", " ", "A"}

LevPatterns == {<<>>, <<1>>, <<1, 2>>, <<1, 4>>, <<2, 3, 4, 6>>}

\* Words with shared pattern prefixes and colliding full paths.
TrieWords ==
    {<<>>, <<"a">>, <<"A">>, <<"a", "b">>, <<"a", "-">>}

\* Lists of pairwise distinct words, with and without a contraction's word.
LoadLists == { << TheWord >>, << <<"a">>, TheWord >>, << <<"a">>, <<"B">> >> }

NoCall == [op |-> "none", input |-> <<>>, language |-> "", k |-> 0, words |-> <<>>]

NoOut == [kind |-> "none", words |-> <<>>, offending |-> {}]

NoLev == [a |-> <<>>, b |-> <<>>, d |-> 0, done |-> FALSE]

Returned(words) == [kind |-> "ok", words |-> words, offending |-> {}]

Raised(offending) == [kind |-> "ValueError", words |-> <<>>, offending |-> offending]

Terminals(trie) == {p \in DOMAIN trie : trie[p].is_end}

RECURSIVE SumOver(_, _)
SumOver(f, S) ==
    IF S = {} THEN 0
    ELSE LET x == CHOOSE y \in S : TRUE IN f[x] + SumOver(f, S \ {x})

Size(dicts) ==
    SumOver([l \in DOMAIN dicts |-> Cardinality(Terminals(dicts[l]))], DOMAIN dicts)

TotalCount(corr) == SumOver(corr, DOMAIN corr)

\* The history of add_word calls: a word is superseded once another word
\* with the same dot-pattern sequence is added to the same language.
NoteAdded(hist, word, language) ==
    LET path == WordPath(word, language)
        kept == {h \in hist : ~(h.language = language /\ h.word = word)}
    IN {[h EXCEPT !.superseded =
            @ \/ (h.language = language /\ WordPath(h.word, language) = path)] : h \in kept}
       \cup {[language |-> language, word |-> word, superseded |-> FALSE]}

RECURSIVE NoteAll(_, _, _)
NoteAll(hist, words, language) ==
    IF words = <<>> THEN hist
    ELSE NoteAll(NoteAdded(hist, Head(words), language), Tail(words), language)

Init ==
    /\ dictionaries = <<>>
    /\ corrections = <<>>
    /\ call = NoCall
    /\ out = NoOut
    /\ suggestions = <<>>
    /\ inserted = {}
    /\ lev = NoLev

AddWord(word, language) ==
    /\ call = NoCall
    /\ dictionaries' = add_word(dictionaries, word, language)
    /\ inserted' = NoteAdded(inserted, word, language)
    /\ call' = [NoCall EXCEPT !.op = "add_word", !.words = <<word>>, !.language = language]
    /\ out' = NoOut
    /\ suggestions' = <<>>
    /\ UNCHANGED <<corrections, lev>>

LoadDictionary(words, language) ==
    /\ call = NoCall
    /\ dictionaries' = load_dictionary(dictionaries, words, language)
    /\ inserted' = NoteAll(inserted, words, language)
    /\ call' = [NoCall EXCEPT !.op = "load_dictionary", !.words = words,
                              !.language = language]
    /\ out' = NoOut
    /\ suggestions' = <<>>
    /\ UNCHANGED <<corrections, lev>>

LearnCorrection(input_seq, corrected_word) ==
    /\ call = NoCall
    /\ corrections' = learn_correction(corrections, corrected_word)
    /\ call' = [NoCall EXCEPT !.op = "learn_correction", !.input = input_seq,
                              !.words = <<corrected_word>>]
    /\ out' = NoOut
    /\ suggestions' = <<>>
    /\ UNCHANGED <<dictionaries, inserted, lev>>

\* autocorrect.corrections.clear(), the caller's reset (run_tests, line 156).
ClearCorrections ==
    /\ call = NoCall
    /\ corrections # <<>>
    /\ corrections' = <<>>
    /\ call' = [NoCall EXCEPT !.op = "clear"]
    /\ out' = NoOut
    /\ suggestions' = <<>>
    /\ UNCHANGED <<dictionaries, inserted, lev>>

\* suggest_word(input_seq, language, max_suggestions); process_input is the
\* call with max_suggestions = 1.
SuggestWord(input_seq, language, max_suggestions) ==
    LET parsed == input_to_braille(input_seq)
    IN /\ call = NoCall
       /\ call' = [NoCall EXCEPT !.op = "suggest_word", !.input = input_seq,
                                 !.language = language, !.k = max_suggestions]
       /\ UNCHANGED <<inserted, lev>>
       /\ IF parsed.kind = "ValueError"
          THEN /\ out' = Raised(parsed.offending)
               /\ suggestions' = <<>>
               /\ UNCHANGED <<dictionaries, corrections>>
          ELSE IF parsed.dots = <<>>
          THEN /\ out' = Returned(<<>>)
               /\ suggestions' = <<>>
               /\ UNCHANGED <<dictionaries, corrections>>
          ELSE LET dicts == Touch(dictionaries, language)
                   trie == dicts[language]
                   sorted == SortedTriples(trie, corrections, parsed.dots, Scored(trie))
                   top == Take(sorted, max_suggestions)
               IN /\ dictionaries' = dicts
                  /\ corrections' = ReadCounts(corrections, trie)
                  /\ suggestions' = sorted
                  /\ out' = Returned([i \in 1..Len(top) |-> top[i].word])

\* The caller has taken the outcome of its call and is ready for the next.
Resume ==
    /\ call # NoCall
    /\ call' = NoCall
    /\ out' = NoOut
    /\ suggestions' = <<>>
    /\ UNCHANGED <<dictionaries, corrections, inserted, lev>>

\* One evaluation of levenshtein_distance on the arguments held in lev.
Evaluate ==
    /\ ~lev.done
    /\ lev' = [lev EXCEPT !.d = levenshtein_distance(lev.a, lev.b), !.done = TRUE]
    /\ UNCHANGED <<dictionaries, corrections, call, out, suggestions, inserted>>

(***************************************************************************)
(* Spec: the life of the dictionaries.  Any word, any language, any order; *)
(* the guards bound the tries and the counters.                            *)
(***************************************************************************)
Next ==
    \/ \E w \in Words, l \in Languages :
          Size(dictionaries) < MaxTerminals /\ AddWord(w, l)
    \/ \E ws \in WordLists, l \in Languages :
          Size(dictionaries) < MaxTerminals /\ LoadDictionary(ws, l)
    \/ \E w \in LearnWords :
          TotalCount(corrections) < MaxLearn /\ LearnCorrection(<<>>, w)
    \/ ClearCorrections
    \/ \E q \in Queries, l \in Languages : SuggestWord(q, l, 1)
    \/ Resume

Spec == Init /\ [][Next]_vars

(***************************************************************************)
(* SpecRank: ranking and learning over dictionaries loaded once per        *)
(* language, with the counters running up to MaxCount.                     *)
(***************************************************************************)
NextRank ==
    \/ \E ws \in RankLists, l \in Languages :
          l \notin DOMAIN dictionaries /\ LoadDictionary(ws, l)
    \/ \E w \in LearnWords :
          TotalCount(corrections) < MaxCount /\ LearnCorrection(<<>>, w)
    \/ ClearCorrections
    \/ \E q \in Queries, l \in Languages, k \in 1..MaxK : SuggestWord(q, l, k)
    \/ Resume

SpecRank == Init /\ [][NextRank]_vars

(***************************************************************************)
(* SpecParse: every input string over InputChars up to MaxInputLen, on     *)
(* dictionaries loaded from the sample list.                               *)
(***************************************************************************)
NextParse ==
    \/ \E l \in Languages :
          l \notin DOMAIN dictionaries /\ LoadDictionary(SampleList, l)
    \/ TotalCount(corrections) < MaxLearn /\ LearnCorrection(<<>>, <<"A">>)
    \/ \E q \in SeqsUpTo(InputChars, MaxInputLen), l \in Languages : SuggestWord(q, l, 1)
    \/ Resume

SpecParse == Init /\ [][NextParse]_vars

(***************************************************************************)
(* SpecLev: levenshtein_distance on every pair of sequences of             *)
(* LevPatterns up to MaxSeqLen.                                            *)
(***************************************************************************)
InitLev ==
    /\ dictionaries = <<>>
    /\ corrections = <<>>
    /\ call = NoCall
    /\ out = NoOut
    /\ suggestions = <<>>
    /\ inserted = {}
    /\ \E a \in SeqsUpTo(LevPatterns, MaxSeqLen), b \in SeqsUpTo(LevPatterns, MaxSeqLen) :
          lev = [a |-> a, b |-> b, d |-> 0, done |-> FALSE]

NextLev == Evaluate

SpecLev == InitLev /\ [][NextLev]_vars

(***************************************************************************)
(* SpecTrie: tries built by add_word calls alone, any word of TrieWords,   *)
(* any language, any order, any number of times.                           *)
(***************************************************************************)
NextTrie ==
    \/ \E w \in TrieWords, l \in Languages : AddWord(w, l)
    \/ Resume

SpecTrie == Init /\ [][NextTrie]_vars

(***************************************************************************)
(* SpecLoad: each language's dictionary built by load_dictionary from one  *)
(* list of LoadLists, then queried for up to MaxK suggestions.             *)
(***************************************************************************)
NextLoad ==
    \/ \E ws \in LoadLists, l \in Languages :
          /\ l \in DOMAIN dictionaries => Terminals(dictionaries[l]) = {}
          /\ LoadDictionary(ws, l)
    \/ TotalCount(corrections) < MaxLearn /\ LearnCorrection(<<>>, TheWord)
    \/ \E q \in Queries, l \in Languages, k \in 1..MaxK : SuggestWord(q, l, k)
    \/ Resume

SpecLoad == Init /\ [][NextLoad]_vars

(***************************************************************************)
(* Vocabulary of the properties.                                           *)
(***************************************************************************)
KeyChars == {"D", "W", "Q", "K", "O", "P"}

SpaceChars == {" ", "\t"}

IsSuggest == call.op = "suggest_word"

\* The step is a call of suggest_word.
SuggestStep == call.op = "none" /\ call'.op = "suggest_word"

Registered(language) == language \in DOMAIN dictionaries

AllZero(corr) == \A key \in DOMAIN corr : corr[key] = 0

\* The tokens of s, as the pairs <<first, last>> of their positions: the
\* maximal runs of non-whitespace characters.
TokenSpans(s) ==
    {sp \in (1..Len(s)) \X (1..Len(s)) :
        /\ sp[1] <= sp[2]
        /\ \A i \in sp[1]..sp[2] : s[i] \notin SpaceChars
        /\ (sp[1] = 1 \/ s[sp[1] - 1] \in SpaceChars)
        /\ (sp[2] = Len(s) \/ s[sp[2] + 1] \in SpaceChars)}

\* The symbols of the token at sp: the pieces between its '+' signs, the empty
\* pieces included.
SymbolsOf(s, sp) ==
    {SubSeq(s, a, b) : <<a, b>> \in
        {ab \in (sp[1]..(sp[2] + 1)) \X ((sp[1] - 1)..sp[2]) :
            /\ ab[1] <= ab[2] + 1
            /\ \A i \in ab[1]..ab[2] : s[i] # "+"
            /\ (ab[1] = sp[1] \/ s[ab[1] - 1] = "+")
            /\ (ab[2] = sp[2] \/ s[ab[2] + 1] = "+")}}

BadSymbols(s, sp) == SymbolsOf(s, sp) \ {<<c>> : c \in KeyChars}

BadSpans(s) == {sp \in TokenSpans(s) : BadSymbols(s, sp) # {}}

FirstBadSpan(s) == CHOOSE sp \in BadSpans(s) : \A o \in BadSpans(s) : sp[1] <= o[1]

\* A valid input that parses to at least one dot pattern.
ValidNonEmpty(s) == BadSpans(s) = {} /\ TokenSpans(s) # {}

(***************************************************************************)
(* C1.  suggest/process_input with a non-empty valid input and a language  *)
(* for which no dictionary was ever loaded fails with                      *)
(* UnknownLanguageError and returns no suggestion list.                    *)
(* The code has no such error: self.dictionaries is a defaultdict, the     *)
(* call registers an empty trie for the language and returns [].           *)
(***************************************************************************)
C1_UnknownLanguageFails ==
    [][(/\ SuggestStep
        /\ ValidNonEmpty(call'.input)
        /\ ~Registered(call'.language)
        /\ \A h \in inserted : h.language # call'.language)
       => out'.kind = "UnknownLanguageError"]_vars

(***************************************************************************)
(* C5.  A suggest/process_input call is a pure read: it leaves the         *)
(* registry of dictionaries (the registered languages and every trie) and  *)
(* the LearningStore (its keys and every count) exactly as they were.      *)
(* The code's call registers an unknown language and inserts a zero count  *)
(* for every word it scores.                                               *)
(***************************************************************************)
C5_SuggestIsPureRead ==
    [][SuggestStep => (dictionaries' = dictionaries /\ corrections' = corrections)]_vars

(***************************************************************************)
(* C2.  As claimed: for every input built only from the six key symbols,   *)
(* '+' and whitespace, in any arrangement, suggest on a registered         *)
(* language never raises.                                                  *)
(***************************************************************************)
C2_ValidCharsNeverRaise ==
    (/\ IsSuggest
     /\ Registered(call.language)
     /\ \A i \in 1..Len(call.input) : call.input[i] \in KeyChars \cup {"+"} \cup SpaceChars)
    => out.kind = "ok"

\* Every '+' stands between two key symbols and no two key symbols are adjacent.
WellFormed(s) ==
    /\ \A i \in 1..Len(s) : s[i] \in KeyChars \cup {"+"} \cup SpaceChars
    /\ \A i \in 1..Len(s) :
          s[i] = "+" => /\ i > 1 /\ i < Len(s)
                        /\ s[i - 1] \in KeyChars
                        /\ s[i + 1] \in KeyChars
    /\ \A i \in 1..(Len(s) - 1) : s[i] \in KeyChars => s[i + 1] \notin KeyChars

(***************************************************************************)
(* C2, amended.  For every input whose tokens are each one or more key     *)
(* symbols joined by single '+' signs (no leading, trailing or repeated    *)
(* '+', no two symbols written together), suggest on a registered language *)
(* never raises.                                                           *)
(***************************************************************************)
C2_WellFormedNeverRaises ==
    (IsSuggest /\ Registered(call.language) /\ WellFormed(call.input))
    => out.kind = "ok"

C2_Witness ==
    /\ IsSuggest
    /\ call.input = <<"D", "+", "K">>
    /\ call.language = "english"
    /\ Scored(dictionaries["english"]) # {}
    /\ out.kind = "ok"
    /\ out.words # <<>>

(***************************************************************************)
(* C3.  For every input in which some token has a symbol outside the valid *)
(* key set, suggest raises the invalid-key error (the code's ValueError)   *)
(* naming the offending symbols of the first such token from the left,     *)
(* produces no result, and leaves the dictionaries and the learning counts *)
(* unchanged.                                                              *)
(***************************************************************************)
C3_InvalidKeyRaises ==
    [][(SuggestStep /\ BadSpans(call'.input) # {})
       => /\ out'.kind = "ValueError"
          /\ out'.offending = BadSymbols(call'.input, FirstBadSpan(call'.input))
          /\ out'.words = <<>>
          /\ suggestions' = <<>>
          /\ dictionaries' = dictionaries
          /\ corrections' = corrections]_vars

C3_Witness ==
    /\ IsSuggest
    /\ call.input = <<"A", " ", "+">>
    /\ out.kind = "ValueError"
    /\ out.offending = {<<"A">>}
    /\ Registered(call.language)
    /\ Scored(dictionaries[call.language]) # {}
    /\ ~AllZero(corrections)

(***************************************************************************)
(* The input that spells a dot-pattern sequence: the keys of each pattern  *)
(* joined by '+', the patterns joined by a blank.                          *)
(***************************************************************************)
RECURSIVE JoinKeys(_)
JoinKeys(dots) ==
    IF dots = <<>> THEN <<>>
    ELSE IF Len(dots) = 1 THEN <<DOT_TO_KEY[dots[1]]>>
    ELSE <<DOT_TO_KEY[dots[1]], "+">> \o JoinKeys(Tail(dots))

RECURSIVE EncodePath(_)
EncodePath(path) ==
    IF path = <<>> THEN <<>>
    ELSE IF Len(path) = 1 THEN JoinKeys(path[1])
    ELSE JoinKeys(path[1]) \o <<" ">> \o EncodePath(Tail(path))

\* The call queried the language of h with the pattern sequence of h's word.
QueriedFor(h) ==
    /\ h.language = call.language
    /\ call.input = EncodePath(WordPath(h.word, h.language))

TopIsExact(word) ==
    /\ out.kind = "ok"
    /\ out.words = <<word>>
    /\ suggestions # <<>>
    /\ suggestions[1].dist = 0

(***************************************************************************)
(* C4.  As claimed: after any add_word/load_dictionary calls and with no   *)
(* corrections recorded, querying with the dot-pattern sequence of any     *)
(* word given to add_word returns that word as the top suggestion, with    *)
(* distance 0.                                                             *)
(***************************************************************************)
C4_RoundTrip ==
    (IsSuggest /\ AllZero(corrections))
    => \A h \in inserted : QueriedFor(h) => TopIsExact(h.word)

(***************************************************************************)
(* C4, amended.  The round trip holds for every non-empty word whose       *)
(* characters are all letters of the language's table and which no later   *)
(* add_word of another word with the same dot-pattern sequence has         *)
(* overwritten.                                                            *)
(***************************************************************************)
C4_RoundTripOfKeptWords ==
    (IsSuggest /\ AllZero(corrections))
    => \A h \in inserted :
          (/\ QueriedFor(h)
           /\ ~h.superseded
           /\ h.word # <<>>
           /\ \A i \in 1..Len(h.word) :
                 LowerChar(h.word[i]) \in DOMAIN braille_maps[h.language])
          => TopIsExact(h.word)

C4_Witness ==
    /\ IsSuggest
    /\ AllZero(corrections)
    /\ \E h \in inserted, g \in inserted :
          /\ h.language = g.language
          /\ ~h.superseded /\ g.superseded
          /\ h.word = <<"A">> /\ g.word = <<"a">>
          /\ QueriedFor(h)
          /\ TopIsExact(h.word)
          /\ Cardinality(Scored(dictionaries[h.language])) >= 2

\* Every ranked triple carries the bonus of its word's stored count.
ScoresFollowCounts ==
    IsSuggest =>
       \A i \in 1..Len(suggestions) :
          LET t == suggestions[i]
              n == Count(corrections, Lower(t.word))
          IN t.score = t.dist - (IF n >= 5 THEN Scale \div 2 ELSE n * (Scale \div 10))

(***************************************************************************)
(* C6.  The score suggest computes for a word is its distance minus        *)
(* 0.1 * n for a stored count n < 5 and minus exactly 0.5 for every        *)
(* n >= 5, so a 6th or later record_correction leaves the score where it   *)
(* is, while each call raises the stored count of w.lower() by 1.          *)
(***************************************************************************)
C6_BonusCapsCountGrows ==
    [][/\ ScoresFollowCounts'
       /\ (call.op = "none" /\ call'.op = "learn_correction")
          => LET key == Lower(call'.words[1])
             IN Count(corrections', key) = Count(corrections, key) + 1]_vars

C6_Witness ==
    /\ IsSuggest
    /\ \E i \in 1..Len(suggestions) :
          /\ Count(corrections, Lower(suggestions[i].word)) >= 6
          /\ suggestions[i].score = suggestions[i].dist - (Scale \div 2)

(***************************************************************************)
(* The ranking of C7: the order of the triples and the list they form.     *)
(***************************************************************************)
\* (score, distance, word) ascending, the word by code points.
RankedBefore(a, b) ==
    \/ a.score < b.score
    \/ a.score = b.score /\ a.dist < b.dist
    \/ a.score = b.score /\ a.dist = b.dist /\ StrLess(a.word, b.word)

ExpectedTriple(trie, p) ==
    LET word == trie[p].word[1]
        dist == levenshtein_distance(input_to_braille(call.input).dots, p)
        count == Count(corrections, Lower(word))
    IN [score |-> dist - (IF count >= 5 THEN Scale \div 2 ELSE count * (Scale \div 10)),
        dist |-> dist, word |-> word]

\* suggestions is the sorted list of the triples of the nodes P, and the call
\* returned the words of its first min(k, |P|) triples.
RanksExactly(trie, P) ==
    /\ Len(suggestions) = Cardinality(P)
    /\ \A p \in P :
          Cardinality({i \in 1..Len(suggestions) : suggestions[i] = ExpectedTriple(trie, p)})
          = Cardinality({q \in P : ExpectedTriple(trie, q) = ExpectedTriple(trie, p)})
    /\ \A i \in 1..Len(suggestions), j \in 1..Len(suggestions) :
          i < j => ~RankedBefore(suggestions[j], suggestions[i])
    /\ out.kind = "ok"
    /\ Len(out.words) = Min2(call.k, Cardinality(P))
    /\ \A i \in 1..Len(out.words) : out.words[i] = suggestions[i].word

(***************************************************************************)
(* C7.  As claimed: for a non-empty valid input, a registered language and *)
(* k >= 1, suggest returns the words of the first min(k, T) triples of the *)
(* sorted list holding one triple per terminal node of the trie, T being   *)
(* the number of terminal nodes.                                           *)
(***************************************************************************)
C7_RanksEveryTerminal ==
    (IsSuggest /\ ValidNonEmpty(call.input))
    => LET trie == dictionaries[call.language]
       IN RanksExactly(trie, {p \in DOMAIN trie : trie[p].is_end})

(***************************************************************************)
(* C7, amended.  The list holds one triple per terminal node that stores a *)
(* non-empty word (a terminal root left by add_word("") is passed over),   *)
(* and T counts those nodes.                                               *)
(***************************************************************************)
C7_RanksEveryWordTerminal ==
    (IsSuggest /\ ValidNonEmpty(call.input))
    => LET trie == dictionaries[call.language]
       IN RanksExactly(trie, {p \in DOMAIN trie : trie[p].is_end /\ trie[p].word # << <<>> >>})

C7_Witness ==
    /\ IsSuggest
    /\ call.k = 2
    /\ Len(suggestions) >= 4
    /\ Len(out.words) = 2
    /\ \E i \in 1..Len(suggestions), j \in 1..Len(suggestions) :
          /\ i < j
          /\ suggestions[i].score = suggestions[j].score
          /\ suggestions[i].dist < suggestions[j].dist
          /\ StrLess(suggestions[j].word, suggestions[i].word)
    /\ \E i \in 1..(Len(suggestions) - 1) :
          /\ suggestions[i].score = suggestions[i + 1].score
          /\ suggestions[i].dist = suggestions[i + 1].dist
          /\ suggestions[i].word # suggestions[i + 1].word

(***************************************************************************)
(* C8.  Empty or whitespace-only input yields the empty list for any       *)
(* registered language, whatever the dictionary and the learning counts,   *)
(* and does not raise.                                                     *)
(***************************************************************************)
C8_BlankInputYieldsEmptyList ==
    (/\ IsSuggest
     /\ Registered(call.language)
     /\ \A i \in 1..Len(call.input) : call.input[i] \in SpaceChars)
    => (out = Returned(<<>>) /\ suggestions = <<>>)

C8_Witness ==
    /\ IsSuggest
    /\ call.input = <<" ", "\t">>
    /\ out = Returned(<<>>)
    /\ Registered(call.language)
    /\ Scored(dictionaries[call.language]) # {}
    /\ ~AllZero(corrections)

(***************************************************************************)
(* The contraction edges of C9.                                            *)
(***************************************************************************)
HasContractionEdges(language) ==
    /\ Registered(language)
    /\ \A i \in 1..Len(CONTRACTIONS) :
          /\ <<CONTRACTIONS[i].dots>> \in DOMAIN dictionaries[language]
          /\ dictionaries[language][<<CONTRACTIONS[i].dots>>]
                = [is_end |-> TRUE, word |-> <<CONTRACTIONS[i].word>>]

NoContractionEdge(language) ==
    Registered(language) =>
       \A i \in 1..Len(CONTRACTIONS) :
          <<CONTRACTIONS[i].dots>> \notin DOMAIN dictionaries[language]

ContractionQueryAnswered ==
    (/\ IsSuggest
     /\ call.input = <<"W", "+", "Q", "+", "K", "+", "P">>
     /\ HasContractionEdges(call.language)
     /\ AllZero(corrections))
    => out = Returned(<<TheWord>>)

(***************************************************************************)
(* C9.  load_dictionary(words, "english") leaves, for any word list, a     *)
(* root-to-terminal edge keyed by each contraction's pattern and carrying  *)
(* its word; the edge stays, and with no corrections recorded the query    *)
(* "W+Q+K+P" then returns ["the"].  load_dictionary for another language   *)
(* adds no such edge.                                                      *)
(***************************************************************************)
C9_ContractionsOfEnglish ==
    [][/\ (call'.op = "load_dictionary" /\ call'.language = "english")
          => HasContractionEdges("english")'
       /\ HasContractionEdges("english") => HasContractionEdges("english")'
       /\ ContractionQueryAnswered'
       /\ \A l \in Languages \ {"english"} : NoContractionEdge(l)']_vars

C9_Witness ==
    /\ IsSuggest
    /\ call.input = <<"W", "+", "Q", "+", "K", "+", "P">>
    /\ call.language = "english"
    /\ out = Returned(<<TheWord>>)
    /\ Len(suggestions) >= 2
    /\ "french" \in DOMAIN dictionaries
    /\ Scored(dictionaries["french"]) # {}

(***************************************************************************)
(* The standard edit-distance table of C10.                                *)
(***************************************************************************)
SubCost(p, q) ==
    LET P == Range(p)
        Q == Range(q)
    IN IF P \cup Q = {} THEN Scale
       ELSE Scale - ((Scale * Cardinality(P \cap Q)) \div Cardinality(P \cup Q))

RECURSIVE EditCell(_, _, _, _)
EditCell(A, B, i, j) ==
    IF i = 0 THEN j * Scale
    ELSE IF j = 0 THEN i * Scale
    ELSE Min2(Min2(EditCell(A, B, i - 1, j) + Scale, EditCell(A, B, i, j - 1) + Scale),
              EditCell(A, B, i - 1, j - 1) + SubCost(A[i], B[j]))

(***************************************************************************)
(* C10.  levenshtein_distance(A, B) is the last cell of the standard       *)
(* edit-distance table with unit insertion and deletion cost and           *)
(* substitution cost 1 - |p /\ q| / |p \/ q| (1 for two empty patterns),   *)
(* plus 0.5 * |n - m| added once; also for n < m and for empty sequences.  *)
(***************************************************************************)
C10_LevenshteinIsStandardTable ==
    lev.done =>
       lev.d = EditCell(lev.a, lev.b, Len(lev.a), Len(lev.b))
               + (Scale \div 2) * Abs(Len(lev.a) - Len(lev.b))

C10_Witness ==
    /\ lev.done
    /\ lev.a # <<>>
    /\ Len(lev.a) < Len(lev.b)
    /\ lev.d % (Scale \div 2) # 0

(***************************************************************************)
(* The trie against the history of add_word calls, for C11.                *)
(***************************************************************************)
HistoryOf(language) == {h \in inserted : h.language = language}

PathsOf(language) == {WordPath(h.word, language) : h \in HistoryOf(language)}

\* One node per distinct prefix of an inserted path and no other node but the
\* root; a node is terminal exactly when its path is an inserted word's; a
\* terminal node stores the word of the latest insertion on its path, any
\* other node stores none.
TrieMatchesHistory ==
    /\ \A h \in inserted : Registered(h.language)
    /\ \A l \in DOMAIN dictionaries :
          LET trie == dictionaries[l]
          IN /\ DOMAIN trie = {<<>>} \cup UNION {Prefixes(p) : p \in PathsOf(l)}
             /\ \A p \in DOMAIN trie :
                   /\ trie[p].is_end <=> p \in PathsOf(l)
                   /\ ~trie[p].is_end => trie[p].word = <<>>
                   /\ trie[p].is_end =>
                         \E h \in HistoryOf(l) :
                            /\ ~h.superseded
                            /\ WordPath(h.word, l) = p
                            /\ trie[p].word = <<h.word>>

\* The step is a call of add_word.
AddStep == call.op = "none" /\ call'.op = "add_word"

\* The call leaves its word, in its original case, on the node of its path
\* and leaves every node that was there, and every other trie, as it was.
AddStoresItsWord ==
    LET l == call'.language
        w == call'.words[1]
        p == WordPath(w, l)
    IN /\ l \in DOMAIN dictionaries'
       /\ dictionaries'[l][p] = [is_end |-> TRUE, word |-> <<w>>]
       /\ Registered(l) =>
             \A q \in DOMAIN dictionaries[l] \ {p} :
                /\ q \in DOMAIN dictionaries'[l]
                /\ dictionaries'[l][q] = dictionaries[l][q]
       /\ \A o \in DOMAIN dictionaries \ {l} :
             o \in DOMAIN dictionaries' /\ dictionaries'[o] = dictionaries[o]

(***************************************************************************)
(* C11.  After any sequence of add_word calls on a language, a node of its *)
(* trie is terminal if and only if some inserted word's dot-pattern        *)
(* sequence is the node's path from the root, and the node stores the      *)
(* original-case word of the most recent such insertion: a later insertion *)
(* with the same full path overwrites the earlier word, and words sharing  *)
(* a pattern prefix share the nodes of that prefix.                        *)
(***************************************************************************)
C11_TerminalsAreInsertedPaths ==
    [][TrieMatchesHistory' /\ (AddStep => AddStoresItsWord)]_vars

C11_Witness ==
    /\ call.op = "add_word"
    /\ call.words = << <<"A">> >>
    /\ LET l == call.language
           trie == dictionaries[l]
       IN /\ [language |-> l, word |-> <<"a">>, superseded |-> TRUE] \in inserted
          /\ trie[<< <<1>> >>] = [is_end |-> TRUE, word |-> << <<"A">> >>]
          /\ << <<1>>, <<1, 2>> >> \in DOMAIN trie
          /\ trie[<< <<1>>, <<1, 2>> >>] = [is_end |-> TRUE, word |-> << <<"a", "b">> >>]
          /\ << <<1>>, <<>> >> \in DOMAIN trie
          /\ trie[<< <<1>>, <<>> >>] = [is_end |-> TRUE, word |-> << <<"a", "-">> >>]
          /\ ~trie[<<>>].is_end
          /\ Cardinality(DOMAIN trie) = 4

(***************************************************************************)
(* C12.  For a dictionary built by load_dictionary from a list of pairwise *)
(* distinct words, the list suggest_word returns for a valid input and     *)
(* max_suggestions >= 1 holds no word more than once.                      *)
(* The code's load_dictionary adds the contraction's word on a node of its *)
(* own: an english list holding "the" leaves two terminal nodes storing    *)
(* "the", and suggest_word returns both.                                   *)
(***************************************************************************)
C12_NoWordTwice ==
    (IsSuggest /\ out.kind = "ok")
    => \A i \in 1..Len(out.words), j \in 1..Len(out.words) :
          i # j => out.words[i] # out.words[j]

====
